---- MODULE Spec2Model ----
(***************************************************************************)
(* Model of order_manager.py: the order lifecycle (add_order,              *)
(* process_order, print_order_report), the menu loop of main, and the      *)
(* load/save contract with the two JSON files.                             *)
(*                                                                         *)
(* Text is modelled as a sequence of Unicode code points, so that          *)
(* str.upper, the substring test of main, int() and the JSON text written  *)
(* by json.dump are computed character by character.                       *)
(***************************************************************************)
EXTENDS Integers, Sequences, FiniteSets, TLC

(***************************************************************************)
(* Bounds of the model.                                                    *)
(***************************************************************************)
\* Orders added in one run, after which the operator adds no more.
MaxAdded == 2
\* Items entered for one order before the operator must end item entry.
MaxItems == 1
\* Orders in a collection handed to the pure functions.
MaxPureOrders == 2

(***************************************************************************)
(* Text primitives.                                                        *)
(***************************************************************************)
\* The file names (order_manager.py:4-5).
INPUT_FILE == "orders.json"
OUTPUT_FILE == "output_orders.json"

\* Python's None, and a present value.
None == [some |-> FALSE, val |-> <<>>]
Some(v) == [some |-> TRUE, val |-> v]

\* str.upper() on one code point: a..z map to A..Z.
upper_char(c) == IF c >= 97 /\ c <= 122 THEN c - 32 ELSE c

\* A mutant of str_upper: the id is kept as typed.
str_upper_kept(s) == s

\* str.upper().
str_upper(s) == [i \in 1..Len(s) |-> upper_char(s[i])]

\* t[i..] starts with sub.
StartsAt(sub, t, i) ==
    /\ i + Len(sub) - 1 <= Len(t)
    /\ \A k \in 1..Len(sub) : t[i + k - 1] = sub[k]

\* Python's `sub in t` for strings.
str_contains(sub, t) == \E i \in 1..(Len(t) + 1) : StartsAt(sub, t, i)

\* Whitespace that str.strip() / int() remove (space, tab, LF, CR).
IsSpace(c) == c \in {32, 9, 10, 13}
IsDigit(c) == c >= 48 /\ c <= 57

RECURSIVE LStrip(_)
LStrip(s) == IF s # <<>> /\ IsSpace(Head(s)) THEN LStrip(Tail(s)) ELSE s

RECURSIVE RStrip(_)
RStrip(s) ==
    IF s # <<>> /\ IsSpace(s[Len(s)]) THEN RStrip(SubSeq(s, 1, Len(s) - 1)) ELSE s

\* Value of a digit string with single underscores allowed between digits
\* (the literal grammar int() accepts); acc is the value so far, prevDigit
\* tells whether the previous character was a digit.
RECURSIVE DigitsValue(_, _, _)
DigitsValue(s, acc, prevDigit) ==
    IF s = <<>> THEN [ok |-> prevDigit, val |-> acc]
    ELSE IF IsDigit(Head(s)) THEN DigitsValue(Tail(s), acc * 10 + (Head(s) - 48), TRUE)
    ELSE IF Head(s) = 95 /\ prevDigit THEN DigitsValue(Tail(s), acc, FALSE)
    ELSE [ok |-> FALSE, val |-> 0]

\* int(text): ok is FALSE where Python raises ValueError.
parse_int(text) ==
    LET s == RStrip(LStrip(text))
        signed == s # <<>> /\ Head(s) \in {43, 45}
        body == IF signed THEN Tail(s) ELSE s
        r == DigitsValue(body, 0, FALSE)
    IN  IF ~r.ok THEN [ok |-> FALSE, val |-> 0]
        ELSE [ok |-> TRUE, val |-> IF signed /\ Head(s) = 45 THEN 0 - r.val ELSE r.val]

\* Decimal digits of a natural number.
RECURSIVE NatDigits(_)
NatDigits(n) == IF n < 10 THEN <<48 + n>> ELSE Append(NatDigits(n \div 10), 48 + (n % 10))

\* str(n) for an integer n.
format_int(n) == IF n < 0 THEN <<45>> \o NatDigits(0 - n) ELSE NatDigits(n)

\* Inserts a comma before every group of three digits, from the right.
RECURSIVE GroupDigits(_)
GroupDigits(d) ==
    IF Len(d) <= 3 THEN d
    ELSE GroupDigits(SubSeq(d, 1, Len(d) - 3)) \o <<44>> \o SubSeq(d, Len(d) - 2, Len(d))

\* f"{n:,}".
format_grouped(n) ==
    IF n < 0 THEN <<45>> \o GroupDigits(NatDigits(0 - n)) ELSE GroupDigits(NatDigits(n))

(***************************************************************************)
(* The JSON text of the two files (json.dump with indent=4 and             *)
(* ensure_ascii=False, json.load).                                         *)
(***************************************************************************)
\* Literal field names: "order_id", "customer", "items", "name", "price",
\* "quantity".
K_order_id == <<111, 114, 100, 101, 114, 95, 105, 100>>
K_customer == <<99, 117, 115, 116, 111, 109, 101, 114>>
K_items == <<105, 116, 101, 109, 115>>
K_name == <<110, 97, 109, 101>>
K_price == <<112, 114, 105, 99, 101>>
K_quantity == <<113, 117, 97, 110, 116, 105, 116, 121>>

HexDigit(d) == IF d < 10 THEN 48 + d ELSE 87 + d

\* A mutant of json_escape_char: the double quote is written unescaped.
json_escape_char_noquote(c) ==
    IF c = 92 THEN <<92, 92>>
    ELSE IF c = 10 THEN <<92, 110>>
    ELSE IF c = 13 THEN <<92, 114>>
    ELSE IF c = 9 THEN <<92, 116>>
    ELSE IF c = 8 THEN <<92, 98>>
    ELSE IF c = 12 THEN <<92, 102>>
    ELSE IF c < 32 THEN <<92, 117, 48, 48, HexDigit(c \div 16), HexDigit(c % 16)>>
    ELSE <<c>>

\* The encoder's escape of one character of a string (ensure_ascii=False:
\* only the quote, the backslash and the control characters are escaped).
json_escape_char(c) ==
    IF c = 34 THEN <<92, 34>>
    ELSE IF c = 92 THEN <<92, 92>>
    ELSE IF c = 10 THEN <<92, 110>>
    ELSE IF c = 13 THEN <<92, 114>>
    ELSE IF c = 9 THEN <<92, 116>>
    ELSE IF c = 8 THEN <<92, 98>>
    ELSE IF c = 12 THEN <<92, 102>>
    ELSE IF c < 32 THEN <<92, 117, 48, 48, HexDigit(c \div 16), HexDigit(c % 16)>>
    ELSE <<c>>

RECURSIVE EscapeAll(_)
EscapeAll(s) == IF s = <<>> THEN <<>> ELSE json_escape_char(Head(s)) \o EscapeAll(Tail(s))

\* A JSON string literal.
json_string(s) == <<34>> \o EscapeAll(s) \o <<34>>

\* Newline followed by the indentation of a nesting level (4 spaces each).
NewlineIndent(level) == <<10>> \o [i \in 1..(4 * level) |-> 32]

\* `"key": ` followed by the value's text.
json_member(key, valueText) == json_string(key) \o <<58, 32>> \o valueText

\* Texts joined by `,` newline indent.
RECURSIVE JoinElements(_, _)
JoinElements(texts, level) ==
    IF Len(texts) = 1 THEN texts[1]
    ELSE texts[1] \o <<44>> \o NewlineIndent(level) \o JoinElements(Tail(texts), level)

\* An array or object whose elements sit at nesting level `level`; an
\* empty container is written without line breaks.
json_container(open, close, texts, level) ==
    IF texts = <<>> THEN <<open, close>>
    ELSE <<open>> \o NewlineIndent(level) \o JoinElements(texts, level)
             \o NewlineIndent(level - 1) \o <<close>>

json_item(item, level) ==
    json_container(123, 125,
        << json_member(K_name, json_string(item.name)),
           json_member(K_price, format_int(item.price)),
           json_member(K_quantity, format_int(item.quantity)) >>,
        level + 1)

json_items(items, level) ==
    json_container(91, 93, [i \in 1..Len(items) |-> json_item(items[i], level + 1)], level + 1)

json_order(order, level) ==
    json_container(123, 125,
        << json_member(K_order_id, json_string(order.order_id)),
           json_member(K_customer, json_string(order.customer)),
           json_member(K_items, json_items(order.items, level + 1)) >>,
        level + 1)

\* json.dump(orders, file, indent=4, ensure_ascii=False).
json_dump(orders) ==
    json_container(91, 93, [i \in 1..Len(orders) |-> json_order(orders[i], 1)], 1)

\* The decoder's result: ok is FALSE where json.load raises; pos is the
\* position after the value.
ParseFail == [ok |-> FALSE, val |-> <<>>, pos |-> 0]
Parsed(v, p) == [ok |-> TRUE, val |-> v, pos |-> p]

\* First position at or after i that holds no JSON whitespace.
RECURSIVE SkipWs(_, _)
SkipWs(t, i) == IF i <= Len(t) /\ IsSpace(t[i]) THEN SkipWs(t, i + 1) ELSE i

\* The character at position i, 0 past the end of the text.
CharAt(t, i) == IF i >= 1 /\ i <= Len(t) THEN t[i] ELSE 0

HexValue(c) ==
    IF IsDigit(c) THEN c - 48
    ELSE IF c >= 97 /\ c <= 102 THEN c - 87
    ELSE IF c >= 65 /\ c <= 70 THEN c - 55
    ELSE -1

\* The character a backslash escape stands for, -1 for an invalid escape.
json_unescape_char(e) ==
    IF e \in {34, 92, 47} THEN e
    ELSE IF e = 98 THEN 8
    ELSE IF e = 102 THEN 12
    ELSE IF e = 110 THEN 10
    ELSE IF e = 114 THEN 13
    ELSE IF e = 116 THEN 9
    ELSE -1

\* The characters of a string literal from position i (after the opening
\* quote) up to the closing quote.
RECURSIVE ParseStringBody(_, _, _)
ParseStringBody(t, i, acc) ==
    LET c == CharAt(t, i) IN
    IF i > Len(t) \/ c < 32 THEN ParseFail
    ELSE IF c = 34 THEN Parsed(acc, i + 1)
    ELSE IF c # 92 THEN ParseStringBody(t, i + 1, Append(acc, c))
    ELSE IF CharAt(t, i + 1) = 117 THEN
        LET h == [k \in 1..4 |-> HexValue(CharAt(t, i + 1 + k))] IN
        IF \E k \in 1..4 : h[k] < 0 THEN ParseFail
        ELSE ParseStringBody(t, i + 6,
                 Append(acc, ((h[1] * 16 + h[2]) * 16 + h[3]) * 16 + h[4]))
    ELSE IF json_unescape_char(CharAt(t, i + 1)) < 0 THEN ParseFail
    ELSE ParseStringBody(t, i + 2, Append(acc, json_unescape_char(CharAt(t, i + 1))))

ParseString(t, i) == IF CharAt(t, i) = 34 THEN ParseStringBody(t, i + 1, <<>>) ELSE ParseFail

\* End of the run of digits that starts at i.
RECURSIVE DigitsEnd(_, _)
DigitsEnd(t, i) == IF IsDigit(CharAt(t, i)) THEN DigitsEnd(t, i + 1) ELSE i

\* A JSON integer: an optional minus sign, then 0 or a digit string without
\* a leading zero.  A fraction or an exponent makes the value a float,
\* which no order field holds; the model rejects it.
ParseNumber(t, i) ==
    LET neg == CharAt(t, i) = 45
        from == IF neg THEN i + 1 ELSE i
        to == IF CharAt(t, from) = 48 THEN from + 1 ELSE DigitsEnd(t, from)
        r == DigitsValue(SubSeq(t, from, to - 1), 0, FALSE)
    IN  IF to = from \/ CharAt(t, to) \in {46, 69, 101} THEN ParseFail
        ELSE Parsed(IF neg THEN 0 - r.val ELSE r.val, to)

\* The field a key names, "?" for a key no order or item has.
FieldOf(key) ==
    IF key = K_order_id THEN "order_id"
    ELSE IF key = K_customer THEN "customer"
    ELSE IF key = K_items THEN "items"
    ELSE IF key = K_name THEN "name"
    ELSE IF key = K_price THEN "price"
    ELSE IF key = K_quantity THEN "quantity"
    ELSE "?"

\* The fields of an order and of an item.
OrderFields == {"order_id", "customer", "items"}
ItemFields == {"name", "price", "quantity"}

\* The decoder's result for a member `"key": value`: the field the key
\* names with the value.
MemberFail == [ok |-> FALSE, field |-> "?", val |-> <<>>, pos |-> 0]
Member(field, v) == [ok |-> v.ok, field |-> field, val |-> v.val, pos |-> v.pos]

\* The position of a member's value, given its key k as parsed: after the
\* colon and the whitespace around it; 0 when there is no key or no colon.
ValueAt(t, k) ==
    IF k.ok /\ CharAt(t, SkipWs(t, k.pos)) = 58 THEN SkipWs(t, SkipWs(t, k.pos) + 1) ELSE 0

\* The character after a parsed value v and the whitespace behind it, and
\* the position after that character and the whitespace behind it.
CharAfter(t, v) == CharAt(t, SkipWs(t, v.pos))
PosAfter(t, v) == SkipWs(t, SkipWs(t, v.pos) + 1)

\* A member of an item, given its key k as parsed: a name with a string, a
\* price or a quantity with an integer.
ItemMemberOf(t, k) ==
    IF ValueAt(t, k) = 0 THEN MemberFail
    ELSE IF FieldOf(k.val) = "name" THEN Member("name", ParseString(t, ValueAt(t, k)))
    ELSE IF FieldOf(k.val) \in {"price", "quantity"}
         THEN Member(FieldOf(k.val), ParseNumber(t, ValueAt(t, k)))
    ELSE MemberFail

DecodeItemMember(t, i) == ItemMemberOf(t, ParseString(t, i))

\* The members of an item from the member m just read to the closing
\* brace; acc maps the fields read before m to their values, a repeated key
\* keeping its last value as in a dict.  An object that lacks a field (the
\* empty object among them) or has another is no order and no item; the
\* model treats it like malformed content.
RECURSIVE DecodeItemMembers(_, _, _)
DecodeItemMembers(t, m, acc) ==
    IF ~m.ok THEN ParseFail
    ELSE IF CharAfter(t, m) = 44
         THEN DecodeItemMembers(t, DecodeItemMember(t, PosAfter(t, m)),
                                (m.field :> m.val) @@ acc)
    ELSE IF CharAfter(t, m) = 125 /\ DOMAIN acc \cup {m.field} = ItemFields
         THEN Parsed((m.field :> m.val) @@ acc, SkipWs(t, m.pos) + 1)
    ELSE ParseFail

DecodeItem(t, i) ==
    IF CharAt(t, i) = 123
    THEN DecodeItemMembers(t, DecodeItemMember(t, SkipWs(t, i + 1)), <<>>)
    ELSE ParseFail

\* The elements of the array of items from the element e just read to the
\* closing bracket; acc holds the elements read before e.
RECURSIVE DecodeItems(_, _, _)
DecodeItems(t, e, acc) ==
    IF ~e.ok THEN ParseFail
    ELSE IF CharAfter(t, e) = 44
         THEN DecodeItems(t, DecodeItem(t, PosAfter(t, e)), Append(acc, e.val))
    ELSE IF CharAfter(t, e) = 93 THEN Parsed(Append(acc, e.val), SkipWs(t, e.pos) + 1)
    ELSE ParseFail

DecodeItemArray(t, i) ==
    IF CharAt(t, i) # 91 THEN ParseFail
    ELSE IF CharAt(t, SkipWs(t, i + 1)) = 93 THEN Parsed(<<>>, SkipWs(t, i + 1) + 1)
    ELSE DecodeItems(t, DecodeItem(t, SkipWs(t, i + 1)), <<>>)

\* A member of an order, given its key k as parsed: an order_id or a
\* customer with a string, or the items with their array.
OrderMemberOf(t, k) ==
    IF ValueAt(t, k) = 0 THEN MemberFail
    ELSE IF FieldOf(k.val) \in {"order_id", "customer"}
         THEN Member(FieldOf(k.val), ParseString(t, ValueAt(t, k)))
    ELSE IF FieldOf(k.val) = "items" THEN Member("items", DecodeItemArray(t, ValueAt(t, k)))
    ELSE MemberFail

DecodeOrderMember(t, i) == OrderMemberOf(t, ParseString(t, i))

\* The members of an order, as DecodeItemMembers reads those of an item.
RECURSIVE DecodeOrderMembers(_, _, _)
DecodeOrderMembers(t, m, acc) ==
    IF ~m.ok THEN ParseFail
    ELSE IF CharAfter(t, m) = 44
         THEN DecodeOrderMembers(t, DecodeOrderMember(t, PosAfter(t, m)),
                                 (m.field :> m.val) @@ acc)
    ELSE IF CharAfter(t, m) = 125 /\ DOMAIN acc \cup {m.field} = OrderFields
         THEN Parsed((m.field :> m.val) @@ acc, SkipWs(t, m.pos) + 1)
    ELSE ParseFail

DecodeOrder(t, i) ==
    IF CharAt(t, i) = 123
    THEN DecodeOrderMembers(t, DecodeOrderMember(t, SkipWs(t, i + 1)), <<>>)
    ELSE ParseFail

\* The elements of the array of orders, as DecodeItems reads the items.
RECURSIVE DecodeOrders(_, _, _)
DecodeOrders(t, e, acc) ==
    IF ~e.ok THEN ParseFail
    ELSE IF CharAfter(t, e) = 44
         THEN DecodeOrders(t, DecodeOrder(t, PosAfter(t, e)), Append(acc, e.val))
    ELSE IF CharAfter(t, e) = 93 THEN Parsed(Append(acc, e.val), SkipWs(t, e.pos) + 1)
    ELSE ParseFail

DecodeOrderArray(t, i) ==
    IF CharAt(t, i) # 91 THEN ParseFail
    ELSE IF CharAt(t, SkipWs(t, i + 1)) = 93 THEN Parsed(<<>>, SkipWs(t, i + 1) + 1)
    ELSE DecodeOrders(t, DecodeOrder(t, SkipWs(t, i + 1)), <<>>)

\* The value r read from a text, provided only whitespace follows it.
WholeText(text, r) == IF r.ok /\ SkipWs(text, r.pos) = Len(text) + 1 THEN r ELSE ParseFail

\* json.load(file): the array of orders, which must be the whole text.
json_load(text) == WholeText(text, DecodeOrderArray(text, SkipWs(text, 1)))

(***************************************************************************)
(* The program's texts.                                                    *)
(***************************************************************************)
\* "=> <order>" : the text main looks for in add_order's message.
T_saved_marker == <<61, 62, 32, 35330, 21934>>
\* "<error>: <order number> " and " <already exists>!".
T_dup_head == <<37679, 35492, 65306, 35330, 21934, 32232, 34399, 32>>
T_dup_tail == <<32, 24050, 23384, 22312, 65281>>
\* "=> <at least one order item is needed>".
T_empty == <<61, 62, 32, 33267, 23569, 38656, 35201, 19968, 20491, 35330, 21934, 38917, 30446>>
\* "=> <order> " and " <has been added>!".
T_order_head == <<61, 62, 32, 35330, 21934, 32>>
T_added_tail == <<32, 24050, 26032, 22686, 65281>>
\* " <has been served>".
T_served_tail == <<32, 24050, 20986, 39184, 23436, 25104>>
\* "=> <error>: <the price cannot be negative, enter it again>".
T_price_negative == <<61, 62, 32, 37679, 35492, 65306, 20729, 26684, 19981, 33021, 28858,
                      36000, 25976, 65292, 35531, 37325, 26032, 36664, 20837>>
\* "=> <error>: <the price must be an integer, enter it again>".
T_price_not_int == <<61, 62, 32, 37679, 35492, 65306, 20729, 26684, 24517, 38920, 28858,
                     25972, 25976, 65292, 35531, 37325, 26032, 36664, 20837>>
\* "=> <error>: <the quantity must be a positive integer, enter it again>".
T_quantity_not_positive == <<61, 62, 32, 37679, 35492, 65306, 25976, 37327, 24517, 38920,
                             28858, 27491, 25972, 25976, 65292, 35531, 37325, 26032, 36664,
                             20837>>
\* "=> <error>: <the quantity must be an integer, enter it again>".
T_quantity_not_int == <<61, 62, 32, 37679, 35492, 65306, 25976, 37327, 24517, 38920, 28858,
                        25972, 25976, 65292, 35531, 37325, 26032, 36664, 20837>>
\* "=> <error>: <enter a valid number>".
T_selection_invalid == <<61, 62, 32, 37679, 35492, 65306, 35531, 36664, 20837, 26377, 25928,
                         30340, 25976, 23383>>
\* "=> <enter a valid option> (1-4)".
T_menu_invalid == <<61, 62, 32, 35531, 36664, 20837, 26377, 25928, 30340, 36984, 38917, 32,
                    40, 49, 45, 52, 41>>
\* The report titles: "<order report>" and "<served order>".
T_report_title == <<35330, 21934, 22577, 34920>>
T_served_title == <<20986, 39184, 35330, 21934>>

msg_duplicate(order_id) == T_dup_head \o order_id \o T_dup_tail
msg_added(order_id) == T_order_head \o order_id \o T_added_tail
msg_served(order_id) == T_order_head \o order_id \o T_served_tail

(***************************************************************************)
(* The pure parts of the operations.                                       *)
(***************************************************************************)
\* A mutant of calculate_order_total: the running total is overwritten by
\* each subtotal instead of being added to.
RECURSIVE TotalOverwritten(_, _)
TotalOverwritten(items, total) ==
    IF items = <<>> THEN total
    ELSE TotalOverwritten(Tail(items), Head(items).price * Head(items).quantity)

\* The loop of calculate_order_total: total is the sum so far.
RECURSIVE TotalFrom(_, _)
TotalFrom(items, total) ==
    IF items = <<>> THEN total
    ELSE TotalFrom(Tail(items), total + Head(items).price * Head(items).quantity)

calculate_order_total_overwritten(order) == TotalOverwritten(order.items, 0)

calculate_order_total(order) == TotalFrom(order.items, 0)

\* One item row of the report: name, price, quantity and subtotal as printed.
report_row(item) ==
    <<item.name, format_int(item.price), format_int(item.quantity),
      format_int(item.price * item.quantity)>>

\* What print_order_report prints: the title and, per order, the number
\* line (0 in single mode, where none is printed), the id, the customer,
\* the item rows and the total with thousands separators.
print_order_report(data, title, single) ==
    LET shown == IF single THEN <<data>> ELSE data IN
    [title |-> title,
     blocks |-> [i \in 1..Len(shown) |->
        [number |-> IF single THEN 0 ELSE i,
         order_id |-> shown[i].order_id,
         customer |-> shown[i].customer,
         rows |-> [j \in 1..Len(shown[i].items) |-> report_row(shown[i].items[j])],
         total |-> format_grouped(calculate_order_total(shown[i]))]]]

\* The report before any has been printed.
NoReport == [title |-> <<>>, blocks |-> <<>>]

\* A mutant of id_exists: the stored ids are upper-cased for the test.
id_exists_nocase(orders, order_id) ==
    \E i \in 1..Len(orders) : str_upper(orders[i].order_id) = order_id

\* A mutant of id_exists: every id is taken to be in use.
id_exists_always(orders, order_id) == TRUE

\* add_order's duplicate test.
id_exists(orders, order_id) == \E i \in 1..Len(orders) : orders[i].order_id = order_id

\* A mutant of price_accepted: a negative price is let through.
price_accepted_any(price) == TRUE

\* add_order's test of an integer price.
price_accepted(price) == ~(price < 0)

\* A mutant of quantity_accepted: zero is let through.
quantity_accepted_zero(quantity) == ~(quantity < 0)

\* add_order's test of an integer quantity.
quantity_accepted(quantity) == ~(quantity <= 0)

\* A mutant of add_order_finish: the new order is put in front of the
\* pending ones.
add_order_finish_front(orders, order_id, customer, items) ==
    IF items = <<>> THEN [orders |-> orders, message |-> T_empty]
    ELSE [orders |-> <<[order_id |-> order_id, customer |-> customer, items |-> items]>>
                        \o orders,
          message |-> msg_added(order_id)]

\* A mutant of add_order_finish: the order is appended before the
\* emptiness test.
add_order_finish_late_check(orders, order_id, customer, items) ==
    LET appended == Append(orders, [order_id |-> order_id, customer |-> customer,
                                    items |-> items])
    IN  IF items = <<>> THEN [orders |-> appended, message |-> T_empty]
        ELSE [orders |-> appended, message |-> msg_added(order_id)]

\* The end of add_order, once item entry is over: the emptiness test, then
\* the append.
add_order_finish(orders, order_id, customer, items) ==
    IF items = <<>> THEN [orders |-> orders, message |-> T_empty]
    ELSE [orders |-> Append(orders, [order_id |-> order_id, customer |-> customer,
                                     items |-> items]),
          message |-> msg_added(order_id)]

\* A mutant of list_append: the element is put in front.
list_append_front(list, x) == <<x>> \o list

\* list.append(x), as main appends the processed order (line 151).
list_append(list, x) == Append(list, x)

\* A mutant of list_pop: the first element is popped whatever the index.
list_pop_first(orders, index) == [rest |-> Tail(orders), order |-> Head(orders)]

\* A mutant of list_pop: the last element is moved into the place of the
\* popped one.
list_pop_swap(orders, index) ==
    [rest |-> [i \in 1..(Len(orders) - 1) |->
                  IF i = index + 1 THEN orders[Len(orders)] ELSE orders[i]],
     order |-> orders[index + 1]]

\* orders.pop(index) for a 0-based index within range.
list_pop(orders, index) ==
    [rest |-> SubSeq(orders, 1, index) \o SubSeq(orders, index + 2, Len(orders)),
     order |-> orders[index + 1]]

\* process_order's range test of the 0-based index.
selection_valid(index, orders) == 0 <= index /\ index < Len(orders)

\* A mutant of process_order_step: the empty line selects the first order
\* when there is one.
process_order_step_default_first(orders, choice) ==
    LET n == parse_int(IF choice = <<>> THEN <<49>> ELSE choice) IN
    IF choice = <<>> /\ orders = <<>>
    THEN [returns |-> TRUE, orders |-> orders, message |-> None, order |-> None,
          printed |-> <<>>]
    ELSE IF ~n.ok \/ ~selection_valid(n.val - 1, orders)
    THEN [returns |-> FALSE, orders |-> orders, message |-> None, order |-> None,
          printed |-> <<T_selection_invalid>>]
    ELSE [returns |-> TRUE, orders |-> list_pop(orders, n.val - 1).rest,
          message |-> Some(msg_served(list_pop(orders, n.val - 1).order.order_id)),
          order |-> Some(list_pop(orders, n.val - 1).order), printed |-> <<>>]

\* A mutant of process_order_step: the empty line is rejected like any
\* other line that is no number.
process_order_step_never_cancels(orders, choice) ==
    LET n == parse_int(choice) IN
    IF ~n.ok \/ ~selection_valid(n.val - 1, orders)
    THEN [returns |-> FALSE, orders |-> orders, message |-> None, order |-> None,
          printed |-> <<T_selection_invalid>>]
    ELSE [returns |-> TRUE, orders |-> list_pop(orders, n.val - 1).rest,
          message |-> Some(msg_served(list_pop(orders, n.val - 1).order.order_id)),
          order |-> Some(list_pop(orders, n.val - 1).order), printed |-> <<>>]

\* A mutant of process_order_step: a rejected selection ends the call as a
\* cancel does.
process_order_step_invalid_returns(orders, choice) ==
    LET n == parse_int(choice) IN
    IF choice = <<>>
    THEN [returns |-> TRUE, orders |-> orders, message |-> None, order |-> None,
          printed |-> <<>>]
    ELSE IF ~n.ok \/ ~selection_valid(n.val - 1, orders)
    THEN [returns |-> TRUE, orders |-> orders, message |-> None, order |-> None,
          printed |-> <<T_selection_invalid>>]
    ELSE [returns |-> TRUE, orders |-> list_pop(orders, n.val - 1).rest,
          message |-> Some(msg_served(list_pop(orders, n.val - 1).order.order_id)),
          order |-> Some(list_pop(orders, n.val - 1).order), printed |-> <<>>]

\* One round of process_order's loop on the line read.  The empty line
\* returns (None, None); a line that is no integer and a number out of
\* range are reported and the loop goes on; a valid number pops the order
\* and returns it with the message.
process_order_step(orders, choice) ==
    LET n == parse_int(choice) IN
    IF choice = <<>>
    THEN [returns |-> TRUE, orders |-> orders, message |-> None, order |-> None,
          printed |-> <<>>]
    ELSE IF ~n.ok \/ ~selection_valid(n.val - 1, orders)
    THEN [returns |-> FALSE, orders |-> orders, message |-> None, order |-> None,
          printed |-> <<T_selection_invalid>>]
    ELSE [returns |-> TRUE, orders |-> list_pop(orders, n.val - 1).rest,
          message |-> Some(msg_served(list_pop(orders, n.val - 1).order.order_id)),
          order |-> Some(list_pop(orders, n.val - 1).order), printed |-> <<>>]

\* A mutant of saves_after_add: main never saves after add_order.
saves_after_add_never(message) == FALSE

\* main's test of add_order's message.
saves_after_add(message) == str_contains(T_saved_marker, message)

\* Truth value of process_order's message: None is false, as is the empty
\* string.
message_truthy(message) == message.some /\ message.val # <<>>

\* A mutant of order_truthy: main takes no order for a present one.
order_truthy_never(order) == FALSE

\* Truth value of process_order's order: None is false; an order is a dict
\* with three keys, which is true.
order_truthy(order) == order.some

(***************************************************************************)
(* The files.                                                              *)
(***************************************************************************)
Missing == [exists |-> FALSE, text |-> <<>>]
File(text) == [exists |-> TRUE, text |-> text]

\* load_data: ok is FALSE where the exception of json.load propagates.
load_data(files, filename) ==
    IF ~files[filename].exists THEN Parsed(<<>>, 0)
    ELSE json_load(files[filename].text)

\* save_orders: the file is created or truncated, then written.
save_orders(files, filename, orders) ==
    [files EXCEPT ![filename] = File(json_dump(orders))]

\* A mutant of fulfil_saves: the fulfilled file is saved first.
fulfil_saves_swapped(pending, fulfilled) ==
    << [filename |-> OUTPUT_FILE, orders |-> fulfilled],
       [filename |-> INPUT_FILE, orders |-> pending] >>

\* The two saves main makes after a fulfilment, in their order (lines
\* 152-153).
fulfil_saves(pending, fulfilled) ==
    << [filename |-> INPUT_FILE, orders |-> pending],
       [filename |-> OUTPUT_FILE, orders |-> fulfilled] >>

(***************************************************************************)
(* What the operator may type.                                             *)
(***************************************************************************)
\* Menu choices: "1".."5" and the empty line.
MenuInputs == {<<49>>, <<50>>, <<51>>, <<52>>, <<53>>, <<>>}
\* Order ids: "a1", "A1" and "=> <order>", the text main looks for.
IdInputs == {<<97, 49>>, <<65, 49>>, T_saved_marker}
\* Customers: "Tom".
CustomerInputs == {<<84, 111, 109>>}
\* Item names: "Burger", and the empty line that ends item entry.
NameInputs == {<<66, 117, 114, 103, 101, 114>>, <<>>}
\* Prices: "x", "-1", "0".
PriceInputs == {<<120>>, <<45, 49>>, <<48>>}
\* Quantities, for an item entered after `entered` others: "x", "0", and
\* one accepted quantity, "2" for the first item, "3" for the second and so
\* on, so that the items of an order show the order in which they were
\* entered.
QuantityInputs(entered) == {<<120>>, <<48>>, format_int(entered + 2)}
\* Selections: the empty line, "x", and the numbers from -1 to one more
\* than the pending collection can hold (three orders: ids A1, B2 and the
\* marker).
SelectionInputs == {<<>>, <<120>>} \cup {format_int(k) : k \in (0 - 1)..4}

\* An order as add_order builds it: A1, Tom, one Burger at 100, twice.
ScenarioOrder ==
    [order_id |-> <<65, 49>>, customer |-> <<84, 111, 109>>,
     items |-> <<[name |-> <<66, 117, 114, 103, 101, 114>>, price |-> 100, quantity |-> 2]>>]

\* Another order: B2, Tom, one Burger at 100.
SecondOrder ==
    [order_id |-> <<66, 50>>, customer |-> <<84, 111, 109>>,
     items |-> <<[name |-> <<66, 117, 114, 103, 101, 114>>, price |-> 100, quantity |-> 1]>>]

\* The files a run may find: none, or the files an earlier run saved with
\* two orders pending and one fulfilled.
InitialFiles ==
    { (INPUT_FILE :> Missing) @@ (OUTPUT_FILE :> Missing),
      (INPUT_FILE :> File(json_dump(<<ScenarioOrder, SecondOrder>>)))
          @@ (OUTPUT_FILE :> File(json_dump(<<ScenarioOrder>>))) }

(***************************************************************************)
(* State.                                                                  *)
(***************************************************************************)
VARIABLES
    pc,               \* where the program waits or runs
    files,            \* the content of INPUT_FILE and OUTPUT_FILE
    orders,           \* main: the pending collection
    output_orders,    \* main: the fulfilled collection
    message,          \* main: the message the last operation returned
    processed_order,  \* main: the order process_order returned
    order_id,         \* add_order: the normalized id
    customer,         \* add_order: the customer
    items,            \* add_order: the items entered so far
    name,             \* add_order: the name of the item being entered
    price,            \* add_order: the accepted price of the item being entered
    line,             \* the line the last input() returned
    printed,          \* the messages the last step printed
    report,           \* the report the last step printed, if any
    wrote,            \* the files the last step wrote
    hist              \* history: the loaded collections, the number of orders
                      \* added and the orders popped, in order

vars == <<pc, files, orders, output_orders, message, processed_order, order_id,
          customer, items, name, price, line, printed, report, wrote, hist>>

addLocals == <<order_id, customer, items, name, price>>
mainLocals == <<message, processed_order>>
collections == <<orders, output_orders>>

\* The locals of add_order outside a call.
NoAddLocals ==
    /\ order_id' = <<>>
    /\ customer' = <<>>
    /\ items' = <<>>
    /\ name' = <<>>
    /\ price' = 0

\* A step that prints no message, no report and writes no file.
Quiet == printed' = <<>> /\ report' = NoReport /\ wrote' = <<>>

\* The state before main runs, the files being among `found`.
InitWith(found) ==
    /\ pc = "start"
    /\ files \in found
    /\ orders = <<>>
    /\ output_orders = <<>>
    /\ message = None
    /\ processed_order = None
    /\ order_id = <<>>
    /\ customer = <<>>
    /\ items = <<>>
    /\ name = <<>>
    /\ price = 0
    /\ line = <<>>
    /\ printed = <<>>
    /\ report = NoReport
    /\ wrote = <<>>
    /\ hist = [orders |-> <<>>, output |-> <<>>, added |-> 0, popped |-> <<>>]

Init == InitWith(InitialFiles)

(***************************************************************************)
(* main.                                                                   *)
(***************************************************************************)
\* main, lines 123-124: both collections are loaded; malformed content
\* ends the program with the exception.
MainLoad ==
    /\ pc = "start"
    /\ LET a == load_data(files, INPUT_FILE)
           b == load_data(files, OUTPUT_FILE)
       IN  IF a.ok /\ b.ok
           THEN /\ orders' = a.val
                /\ output_orders' = b.val
                /\ hist' = [hist EXCEPT !.orders = a.val, !.output = b.val]
                /\ pc' = "menu"
           ELSE /\ pc' = "crashed"
                /\ UNCHANGED <<collections, hist>>
    /\ Quiet
    /\ UNCHANGED <<files, mainLocals, addLocals, line>>

\* Choice "4" or the empty line: the loop ends.
MainExit ==
    /\ pc = "menu"
    /\ \E choice \in MenuInputs :
        /\ line' = choice
        /\ choice = <<>> \/ choice = <<52>>
        /\ pc' = "done"
    /\ Quiet
    /\ UNCHANGED <<files, collections, mainLocals, addLocals, hist>>

\* Choice "1": add_order is called and asks for the id.
MainAdd ==
    /\ pc = "menu"
    /\ hist.added < MaxAdded
    /\ \E choice \in MenuInputs :
        /\ line' = choice
        /\ choice = <<49>>
        /\ pc' = "add_id"
    /\ Quiet
    /\ UNCHANGED <<files, collections, mainLocals, addLocals, hist>>

\* Choice "2": the report of the pending collection.
MainReport ==
    /\ pc = "menu"
    /\ \E choice \in MenuInputs :
        /\ line' = choice
        /\ choice = <<50>>
        /\ report' = print_order_report(orders, T_report_title, FALSE)
    /\ pc' = "menu"
    /\ printed' = <<>>
    /\ wrote' = <<>>
    /\ UNCHANGED <<files, collections, mainLocals, addLocals, hist>>

\* Choice "3": process_order is called, lists the pending orders and asks
\* for a selection.
MainProcess ==
    /\ pc = "menu"
    /\ \E choice \in MenuInputs :
        /\ line' = choice
        /\ choice = <<51>>
        /\ pc' = "process_choice"
    /\ Quiet
    /\ UNCHANGED <<files, collections, mainLocals, addLocals, hist>>

\* Any other choice: the message of line 157.
MainInvalid ==
    /\ pc = "menu"
    /\ \E choice \in MenuInputs :
        /\ line' = choice
        /\ choice \notin {<<>>, <<49>>, <<50>>, <<51>>, <<52>>}
        /\ printed' = <<T_menu_invalid>>
    /\ pc' = "menu"
    /\ report' = NoReport
    /\ wrote' = <<>>
    /\ UNCHANGED <<files, collections, mainLocals, addLocals, hist>>

(***************************************************************************)
(* add_order.                                                              *)
(***************************************************************************)
\* Lines 56-60: the id is read and normalized; a duplicate ends the call
\* with the error message.
AddReadId ==
    /\ pc = "add_id"
    /\ \E typed \in IdInputs :
        LET id == str_upper(typed) IN
        /\ line' = typed
        /\ IF id_exists(orders, id)
           THEN /\ message' = Some(msg_duplicate(id))
                /\ pc' = "add_return"
                /\ NoAddLocals
           ELSE /\ order_id' = id
                /\ pc' = "add_customer"
                /\ UNCHANGED <<message, customer, items, name, price>>
    /\ Quiet
    /\ UNCHANGED <<files, collections, processed_order, hist>>

\* Lines 62-63: the customer is read, the item list starts empty.
AddReadCustomer ==
    /\ pc = "add_customer"
    /\ \E typed \in CustomerInputs :
        /\ line' = typed
        /\ customer' = typed
    /\ items' = <<>>
    /\ pc' = "add_name"
    /\ Quiet
    /\ UNCHANGED <<files, collections, mainLocals, order_id, name, price, hist>>

\* Lines 65-67: an item name is read and its price asked for.
AddReadName ==
    /\ pc = "add_name"
    /\ Len(items) < MaxItems
    /\ \E typed \in NameInputs :
        /\ typed # <<>>
        /\ line' = typed
        /\ name' = typed
    /\ pc' = "add_price"
    /\ Quiet
    /\ UNCHANGED <<files, collections, mainLocals, order_id, customer, items, price, hist>>

\* Lines 65-67 and 92-96: the empty name ends item entry and the call.
AddFinish ==
    /\ pc = "add_name"
    /\ \E typed \in NameInputs :
        /\ typed = <<>>
        /\ line' = typed
        /\ LET r == add_order_finish(orders, order_id, customer, items) IN
            /\ orders' = r.orders
            /\ message' = Some(r.message)
            /\ hist' = [hist EXCEPT !.added = @ + (Len(r.orders) - Len(orders))]
    /\ pc' = "add_return"
    /\ NoAddLocals
    /\ Quiet
    /\ UNCHANGED <<files, output_orders, processed_order>>

\* Lines 68-77: a price is read; a line that is no integer and a negative
\* price are reported and the price is asked for again.
AddReadPrice ==
    /\ pc = "add_price"
    /\ \E typed \in PriceInputs :
        LET p == parse_int(typed) IN
        /\ line' = typed
        /\ IF ~p.ok
           THEN /\ printed' = <<T_price_not_int>>
                /\ UNCHANGED <<pc, price>>
           ELSE IF ~price_accepted(p.val)
           THEN /\ printed' = <<T_price_negative>>
                /\ UNCHANGED <<pc, price>>
           ELSE /\ price' = p.val
                /\ pc' = "add_quantity"
                /\ printed' = <<>>
    /\ report' = NoReport
    /\ wrote' = <<>>
    /\ UNCHANGED <<files, collections, mainLocals, order_id, customer, items, name, hist>>

\* Lines 79-90: a quantity is read; a line that is no integer and a
\* quantity that is not positive are reported and the quantity is asked for
\* again; otherwise the item is appended and the next name asked for.
AddReadQuantity ==
    /\ pc = "add_quantity"
    /\ \E typed \in QuantityInputs(Len(items)) :
        LET q == parse_int(typed) IN
        /\ line' = typed
        /\ IF ~q.ok
           THEN /\ printed' = <<T_quantity_not_int>>
                /\ UNCHANGED <<pc, items>>
           ELSE IF ~quantity_accepted(q.val)
           THEN /\ printed' = <<T_quantity_not_positive>>
                /\ UNCHANGED <<pc, items>>
           ELSE /\ items' = Append(items, [name |-> name, price |-> price,
                                           quantity |-> q.val])
                /\ pc' = "add_name"
                /\ printed' = <<>>
    /\ report' = NoReport
    /\ wrote' = <<>>
    /\ UNCHANGED <<files, collections, mainLocals, order_id, customer, name, price, hist>>

\* main, lines 139-142: the message is printed and, when it holds the
\* marker, the pending collection is saved.
MainAddReturn ==
    /\ pc = "add_return"
    /\ printed' = <<message.val>>
    /\ IF saves_after_add(message.val)
       THEN /\ files' = save_orders(files, INPUT_FILE, orders)
            /\ wrote' = <<INPUT_FILE>>
       ELSE /\ UNCHANGED files
            /\ wrote' = <<>>
    /\ pc' = "menu"
    /\ report' = NoReport
    /\ UNCHANGED <<collections, mainLocals, addLocals, hist, line>>

(***************************************************************************)
(* process_order.                                                          *)
(***************************************************************************)
\* Lines 106-118: a selection is read and process_order_step decides.
ProcessReadChoice ==
    /\ pc = "process_choice"
    /\ \E choice \in SelectionInputs :
        LET r == process_order_step(orders, choice) IN
        /\ line' = choice
        /\ printed' = r.printed
        /\ orders' = r.orders
        /\ IF r.returns
           THEN /\ message' = r.message
                /\ processed_order' = r.order
                /\ pc' = "process_return"
           ELSE UNCHANGED <<pc, mainLocals>>
        /\ hist' = IF r.order.some THEN [hist EXCEPT !.popped = Append(@, r.order.val)]
                   ELSE hist
    /\ report' = NoReport
    /\ wrote' = <<>>
    /\ UNCHANGED <<files, output_orders, addLocals>>

\* main, lines 146-152: after a cancel the loop goes on; otherwise the
\* message and the order's report are printed, the order is appended to the
\* fulfilled collection and the first of the two saves is made.
MainProcessReturn ==
    /\ pc = "process_return"
    /\ IF message_truthy(message) /\ order_truthy(processed_order)
       THEN /\ printed' = <<message.val>>
            /\ report' = print_order_report(processed_order.val, T_served_title, TRUE)
            /\ output_orders' = list_append(output_orders, processed_order.val)
            /\ files' = save_orders(files, fulfil_saves(orders, output_orders')[1].filename,
                                    fulfil_saves(orders, output_orders')[1].orders)
            /\ wrote' = <<fulfil_saves(orders, output_orders')[1].filename>>
            /\ pc' = "save_output"
       ELSE /\ printed' = IF message_truthy(message) THEN <<message.val>> ELSE <<>>
            /\ report' = NoReport
            /\ wrote' = <<>>
            /\ pc' = "menu"
            /\ UNCHANGED <<output_orders, files>>
    /\ UNCHANGED <<orders, mainLocals, addLocals, hist, line>>

\* main, line 153: the second of the two saves is made.
MainSaveOutput ==
    /\ pc = "save_output"
    /\ files' = save_orders(files, fulfil_saves(orders, output_orders)[2].filename,
                            fulfil_saves(orders, output_orders)[2].orders)
    /\ wrote' = <<fulfil_saves(orders, output_orders)[2].filename>>
    /\ pc' = "menu"
    /\ printed' = <<>>
    /\ report' = NoReport
    /\ UNCHANGED <<collections, mainLocals, addLocals, hist, line>>

Next ==
    \/ MainLoad
    \/ MainExit
    \/ MainAdd
    \/ MainReport
    \/ MainProcess
    \/ MainInvalid
    \/ AddReadId
    \/ AddReadCustomer
    \/ AddReadName
    \/ AddFinish
    \/ AddReadPrice
    \/ AddReadQuantity
    \/ MainAddReturn
    \/ ProcessReadChoice
    \/ MainProcessReturn
    \/ MainSaveOutput

Spec == Init /\ [][Next]_vars

\* The round of process_order's loop in which the operator enters the
\* empty line or a valid number, so that process_order returns.
ProcessEnds == ProcessReadChoice /\ pc' = "process_return"

\* A first run: neither file exists.
InitNoFiles == InitWith({(INPUT_FILE :> Missing) @@ (OUTPUT_FILE :> Missing)})

\* A first run of the program with an operator who, asked for a selection,
\* does not enter rejected lines for ever.
SpecFair == InitNoFiles /\ [][Next]_vars /\ WF_vars(ProcessEnds)

\* An order whose id has a lower-case letter: a1, Tom, one Burger at 100.
\* add_order stores no such id; a pending file written by hand or by
\* another program may hold one.
LowerOrder ==
    [order_id |-> <<97, 49>>, customer |-> <<84, 111, 109>>,
     items |-> <<[name |-> <<66, 117, 114, 103, 101, 114>>, price |-> 100, quantity |-> 1]>>]

\* A run that finds a pending file holding that order and no fulfilled file.
InitLowerIds ==
    InitWith({(INPUT_FILE :> File(json_dump(<<LowerOrder>>))) @@ (OUTPUT_FILE :> Missing)})

SpecLower == InitLowerIds /\ [][Next]_vars

(***************************************************************************)
(* The pure functions on their own: save_orders, load_data and             *)
(* print_order_report applied to collections drawn from a bounded set.     *)
(***************************************************************************)
\* Item lists: names with a quote, a backslash, a tab and non-ASCII
\* characters, the empty name, prices 0 and negative, totals that need
\* thousands separators.
PureItemLists ==
    { <<>>,
      <<[name |-> <<66, 117, 114, 103, 101, 114>>, price |-> 100, quantity |-> 2]>>,
      <<[name |-> <<66, 34, 92, 9, 233, 35330>>, price |-> 1500, quantity |-> 3],
        [name |-> <<>>, price |-> 0, quantity |-> 1]>>,
      <<[name |-> <<47, 92, 117>>, price |-> 0, quantity |-> 4],
        [name |-> <<34>>, price |-> 250, quantity |-> 1000],
        [name |-> <<35330>>, price |-> 0 - 7, quantity |-> 1]>> }

\* Ids: "A1" and an id with a quote and a backslash; customers: "Tom".
PureOrders ==
    { [order_id |-> id, customer |-> <<84, 111, 109>>, items |-> its] :
        id \in {<<65, 49>>, <<97, 34, 92>>}, its \in PureItemLists }

RECURSIVE SeqsUpTo(_, _)
SeqsUpTo(S, n) ==
    IF n = 0 THEN {<<>>}
    ELSE SeqsUpTo(S, n - 1) \cup {Append(s, x) : s \in {q \in SeqsUpTo(S, n - 1) : Len(q) = n - 1}, x \in S}

PureCollections == SeqsUpTo(PureOrders, MaxPureOrders)

\* What the location may hold before the save: nothing, an empty array, a
\* longer text.
PriorContents == {Missing, File(<<91, 93>>), File(json_dump(<<ScenarioOrder, ScenarioOrder>>))}

InitPure ==
    /\ pc = "pure"
    /\ orders \in PureCollections
    /\ \E prior \in PriorContents :
        files = (INPUT_FILE :> prior) @@ (OUTPUT_FILE :> Missing)
    /\ output_orders = <<>>
    /\ message = None
    /\ processed_order = None
    /\ order_id = <<>>
    /\ customer = <<>>
    /\ items = <<>>
    /\ name = <<>>
    /\ price = 0
    /\ line = <<>>
    /\ printed = <<>>
    /\ report = NoReport
    /\ wrote = <<>>
    /\ hist = [orders |-> <<>>, output |-> <<>>, added |-> 0, popped |-> <<>>]

\* save_orders(INPUT_FILE, orders).
PureSave ==
    /\ pc = "pure"
    /\ files' = save_orders(files, INPUT_FILE, orders)
    /\ wrote' = <<INPUT_FILE>>
    /\ pc' = "pure_saved"
    /\ UNCHANGED <<collections, mainLocals, addLocals, line, printed, report, hist>>

\* orders = load_data(INPUT_FILE), of the location just saved.
PureLoad ==
    /\ pc = "pure_saved"
    /\ LET a == load_data(files, INPUT_FILE) IN
        IF a.ok THEN orders' = a.val /\ pc' = "pure_loaded"
        ELSE pc' = "crashed" /\ UNCHANGED orders
    /\ wrote' = <<>>
    /\ UNCHANGED <<files, output_orders, mainLocals, addLocals, line, printed, report, hist>>

\* print_order_report(orders).
PureReport ==
    /\ pc = "pure"
    /\ report' = print_order_report(orders, T_report_title, FALSE)
    /\ pc' = "pure_reported"
    /\ UNCHANGED <<files, collections, mainLocals, addLocals, line, printed, wrote, hist>>

NextPure == PureSave \/ PureLoad \/ PureReport

SpecPure == InitPure /\ [][NextPure]_vars

(***************************************************************************)
(* Properties.                                                             *)
(***************************************************************************)
\* Lower-case form of a text, for comparing ids without regard to case.
FoldCase(s) == [i \in 1..Len(s) |-> IF s[i] >= 65 /\ s[i] <= 90 THEN s[i] + 32 ELSE s[i]]

\* No two pending orders have ids that are equal ignoring case.
PendingIdsDistinct ==
    \A i, j \in 1..Len(orders) :
        i # j => FoldCase(orders[i].order_id) # FoldCase(orders[j].order_id)

\* The last line read, ignoring case, is the id of a pending order.
TypedIdPending == \E i \in 1..Len(orders) : FoldCase(orders[i].order_id) = FoldCase(line')

\* C1: no two orders of the pending collection have the same order_id when
\* compared case-insensitively, and an Add whose id equals a pending id
\* ignoring case ends with the duplicate message and leaves the pending
\* collection as it was.
C1_PendingIdsUnique ==
    /\ []PendingIdsDistinct
    /\ [][(pc = "add_id" /\ TypedIdPending)
            => /\ pc' = "add_return"
               /\ message' = Some(msg_duplicate(str_upper(line')))
               /\ orders' = orders]_vars

\* C1 witness: "a1" was typed while A1 is pending, and add_order returned
\* the duplicate message.
C1_Witness ==
    /\ pc = "add_return"
    /\ line = <<97, 49>>
    /\ \E i \in 1..Len(orders) : orders[i].order_id = <<65, 49>>
    /\ message = Some(msg_duplicate(<<65, 49>>))

\* The 1-based number typed in the step, 0 when the line is no number.
TypedNumber == IF parse_int(line').ok THEN parse_int(line').val ELSE 0

\* C2: a valid selection k pops the order at position k, leaving the
\* pending collection one shorter, and main appends that very order to the
\* fulfilled collection, leaving it one longer.
C2_FulfillConservation ==
    [][/\ (pc = "process_choice" /\ TypedNumber \in 1..Len(orders))
            => /\ pc' = "process_return"
               /\ Len(orders') = Len(orders) - 1
               /\ processed_order' = Some(orders[TypedNumber])
               /\ output_orders' = output_orders
       /\ (pc = "process_return" /\ processed_order.some)
            => /\ output_orders' = Append(output_orders, processed_order.val)
               /\ Len(output_orders') = Len(output_orders) + 1
               /\ orders' = orders]_vars

\* C2 witness: the second of two pending orders was fulfilled.
C2_Witness ==
    /\ pc = "save_output"
    /\ line = <<50>>
    /\ Len(orders) = 1
    /\ output_orders # <<>>
    /\ output_orders[Len(output_orders)] = processed_order.val

\* The result of a load is the collection.
Loads(loaded, collection) == loaded.ok /\ loaded.val = collection

\* The collection a file holds, a missing file holding the empty one.
FileHolds(filename, collection) == Loads(load_data(files, filename), collection)

\* C3: whenever main waits for a menu choice, the pending file holds the
\* pending collection and the fulfilled file holds the fulfilled
\* collection.
C3_WrittenBack ==
    pc = "menu" => FileHolds(INPUT_FILE, orders) /\ FileHolds(OUTPUT_FILE, output_orders)

\* C3 witness: main waits for a choice after an Add and a Fulfill.
C3_Witness ==
    /\ pc = "menu"
    /\ hist.added > 0
    /\ hist.popped # <<>>
    /\ orders # <<>>

\* C4: an Add that ends with the duplicate message or with the
\* empty-order message leaves the pending collection as it was, and no
\* pending order has zero items.
C4_FailedAddKeepsPending ==
    /\ [](\A i \in 1..Len(orders) : orders[i].items # <<>>)
    /\ [][/\ (pc = "add_id" /\ pc' = "add_return")
               => /\ orders' = orders
                  /\ message' = Some(msg_duplicate(str_upper(line')))
          /\ (pc = "add_name" /\ pc' = "add_return" /\ items = <<>>)
               => /\ orders' = orders
                  /\ message' = Some(T_empty)]_vars

\* C4 witness: item entry ended with no item while an order is pending.
C4_Witness ==
    /\ pc = "add_return"
    /\ message = Some(T_empty)
    /\ orders # <<>>

\* add_order's message reports a failed validation.
FailureMessage(m) == m.some /\ (m.val = T_empty \/ StartsAt(T_dup_head, m.val, 1))

\* C5: after an Add that failed with the duplicate message or the
\* empty-order message, main writes no file.
C5_FailedAddNotSaved ==
    [][(pc = "add_return" /\ FailureMessage(message)) => wrote' = <<>>]_vars

\* C6: an empty selection makes process_order return (None, None); neither
\* that step nor main's handling of the result changes a collection or a
\* file or writes a file, and main is back at the menu.
C6_CancelNoOp ==
    [][/\ (pc = "process_choice" /\ line' = <<>>)
            => /\ pc' = "process_return"
               /\ message' = None
               /\ processed_order' = None
               /\ UNCHANGED <<orders, output_orders, files>>
               /\ wrote' = <<>>
       /\ (pc = "process_return" /\ message = None)
            => /\ pc' = "menu"
               /\ UNCHANGED <<orders, output_orders, files>>
               /\ wrote' = <<>>]_vars

\* C6 witness: a Fulfill was cancelled with orders pending and orders
\* fulfilled.
C6_Witness ==
    /\ pc = "process_return"
    /\ line = <<>>
    /\ message = None
    /\ processed_order = None
    /\ orders # <<>>
    /\ output_orders # <<>>

\* An order with at least one item, every price >= 0, every quantity > 0.
WellFormed(order) ==
    /\ order.items # <<>>
    /\ \A j \in 1..Len(order.items) :
        order.items[j].price >= 0 /\ order.items[j].quantity > 0

\* C7: every pending and every fulfilled order has at least one item, and
\* every item has price >= 0 and quantity > 0.
C7_OrdersWellFormed ==
    /\ \A i \in 1..Len(orders) : WellFormed(orders[i])
    /\ \A i \in 1..Len(output_orders) : WellFormed(output_orders[i])

\* C7 witness: an order with an item of price 0 was added and fulfilled.
C7_Witness ==
    /\ hist.added > 0
    /\ \E i \in 1..Len(output_orders) : output_orders[i].items[1].price = 0

\* C8: whenever main waits for a menu choice, the fulfilled collection is
\* the loaded one followed by the orders popped from pending, in order, and
\* pending holds as many orders as were loaded or added and not popped.
C8_NoPartialFulfilment ==
    pc = "menu" =>
        /\ output_orders = hist.output \o hist.popped
        /\ Len(orders) + Len(hist.popped) = Len(hist.orders) + hist.added

\* C8 witness: main waits for a choice after two orders were fulfilled.
C8_Witness ==
    /\ pc = "menu"
    /\ Len(hist.popped) = 2

\* C9: loading the location just saved gives the collection that was
\* saved, whatever the location held before.
C9_RoundTrip ==
    [][pc = "pure_saved" => (pc' = "pure_loaded" /\ orders' = orders)]_vars

\* C9 witness: a collection of two orders, one with three items, was
\* loaded from a location that held a longer text before the save.
C9_Witness ==
    /\ pc = "pure_loaded"
    /\ Len(orders) = 2
    /\ Len(orders[1].items) = 3
    /\ orders[2].order_id = <<97, 34, 92>>

\* Sum of price * quantity over the items, taken from the last item back.
RECURSIVE SumOfProducts(_)
SumOfProducts(its) ==
    IF its = <<>> THEN 0
    ELSE SumOfProducts(SubSeq(its, 1, Len(its) - 1))
            + its[Len(its)].price * its[Len(its)].quantity

\* The number a printed cell shows, thousands separators removed.
ShownNumber(cell) == parse_int(SelectSeq(cell, LAMBDA c : c # 44)).val

\* Sum of the subtotals a report block shows.
RECURSIVE ShownSubtotals(_)
ShownSubtotals(rows) ==
    IF rows = <<>> THEN 0 ELSE ShownNumber(Head(rows)[4]) + ShownSubtotals(Tail(rows))

\* C10: calculate_order_total is the sum of price * quantity over the
\* items; each subtotal the report shows is price * quantity of its item,
\* and the total it shows is the sum of the subtotals it shows.
C10_TotalCorrect ==
    pc = "pure_reported" =>
        \A i \in 1..Len(orders) :
            /\ calculate_order_total(orders[i]) = SumOfProducts(orders[i].items)
            /\ \A j \in 1..Len(orders[i].items) :
                ShownNumber(report.blocks[i].rows[j][4])
                    = orders[i].items[j].price * orders[i].items[j].quantity
            /\ ShownNumber(report.blocks[i].total) = ShownSubtotals(report.blocks[i].rows)

\* C10 witness: the report of an order of three items, two of price 0,
\* shows the total 249,993.
C10_Witness ==
    /\ pc = "pure_reported"
    /\ \E i \in 1..Len(orders) :
        /\ Len(orders[i].items) = 3
        /\ orders[i].items[1].price = 0
        /\ report.blocks[i].total = <<50, 52, 57, 44, 57, 57, 51>>

\* The message begins with "=>".
BeginsWithMarker(m) == StartsAt(<<61, 62>>, m, 1)

\* Every message the step printed begins with "=>", and there is one.
ReportedWithMarker ==
    /\ printed' # <<>>
    /\ \A i \in 1..Len(printed') : BeginsWithMarker(printed'[i])

\* C11: the message of every rejected price, quantity and selection, and
\* the message add_order returns for a duplicate id and for an order
\* without items, begins with "=>".
C11_ErrorPrefix ==
    [][/\ (pc = "add_price" /\ pc' = "add_price") => ReportedWithMarker
       /\ (pc = "add_quantity" /\ pc' = "add_quantity") => ReportedWithMarker
       /\ (pc = "process_choice" /\ pc' = "process_choice") => ReportedWithMarker
       /\ (pc = "add_id" /\ pc' = "add_return") => BeginsWithMarker(message'.val)
       /\ (pc = "add_name" /\ pc' = "add_return" /\ orders' = orders)
            => BeginsWithMarker(message'.val)]_vars

\* C12: a valid selection k removes the order at position k: the orders
\* before it keep their positions, the orders after it move down by one in
\* the same order, and main makes the removed order the last element of the
\* fulfilled collection, whose earlier elements stay as they were.
C12_FulfilByPosition ==
    [][/\ (pc = "process_choice" /\ TypedNumber \in 1..Len(orders))
            => /\ Len(orders') = Len(orders) - 1
               /\ \A i \in 1..(TypedNumber - 1) : orders'[i] = orders[i]
               /\ \A i \in (TypedNumber + 1)..Len(orders) : orders'[i - 1] = orders[i]
               /\ processed_order' = Some(orders[TypedNumber])
       /\ (pc = "process_return" /\ processed_order.some)
            => /\ Len(output_orders') = Len(output_orders) + 1
               /\ output_orders'[Len(output_orders')] = processed_order.val
               /\ \A i \in 1..Len(output_orders) : output_orders'[i] = output_orders[i]]_vars

\* C12 witness: the first of three pending orders was fulfilled; the other
\* two are pending in their order and the fulfilled collection, which held
\* an order before, ends with the removed one.
C12_Witness ==
    /\ pc = "save_output"
    /\ line = <<49>>
    /\ Len(orders) = 2
    /\ orders[1] = SecondOrder
    /\ orders[2].order_id = T_saved_marker
    /\ Len(output_orders) = 2
    /\ output_orders[2] = ScenarioOrder

\* The line read in the step is not empty and is neither an integer nor a
\* number from 1 to the length of the pending collection.
TypedBadSelection ==
    /\ line' # <<>>
    /\ ~parse_int(line').ok \/ parse_int(line').val \notin 1..Len(orders)

\* C13: in process_order a non-empty selection that is no integer, or an
\* integer outside 1..n, is answered with the invalid-selection message,
\* changes neither collection nor a file, writes nothing, and the selection
\* is asked for again.
C13_InvalidSelectionRejected ==
    [][(pc = "process_choice" /\ TypedBadSelection)
            => /\ printed' = <<T_selection_invalid>>
               /\ UNCHANGED <<orders, output_orders, files, message, processed_order>>
               /\ wrote' = <<>>
               /\ pc' = "process_choice"]_vars

\* C13 witness: with n orders pending, n + 1 was selected and rejected.
C13_Witness ==
    /\ pc = "process_choice"
    /\ orders # <<>>
    /\ line = format_int(Len(orders) + 1)
    /\ printed = <<T_selection_invalid>>

\* The line read in the step is no integer, or an integer below `least`.
TypedBelow(least) == ~parse_int(line').ok \/ parse_int(line').val < least

IsPrefix(s, t) == Len(s) <= Len(t) /\ SubSeq(t, 1, Len(s)) = s

\* C15: once loaded, the fulfilled collection only grows at its end: every
\* step leaves it a prefix of what it becomes, the loaded collection stays a
\* prefix of it, and the one step that changes it is main's handling of an
\* order that process_order returned, which appends that order.
C15_FulfilledAppendOnly ==
    /\ [](pc # "start" => IsPrefix(hist.output, output_orders))
    /\ [][pc # "start"
            => /\ IsPrefix(output_orders, output_orders')
               /\ output_orders' # output_orders
                    => /\ pc = "process_return"
                       /\ processed_order.some
                       /\ output_orders' = output_orders \o <<processed_order.val>>]_vars

\* C15 witness: an Add failed after a fulfilment had made the loaded
\* fulfilled collection one longer.
C15_Witness ==
    /\ pc = "add_return"
    /\ FailureMessage(message)
    /\ hist.output = <<ScenarioOrder>>
    /\ Len(output_orders) = 2
    /\ output_orders[1] = ScenarioOrder

\* C16: a round of process_order's loop either asks again, and then the
\* line was a rejected one, or returns, and then the line was empty and
\* (None, None) is returned or the line was a valid number and an order is
\* returned; with no order pending only (None, None) is returned; and with
\* an operator who does not enter rejected lines for ever, process_order
\* returns.
C16_FulfilTerminates ==
    /\ [][pc = "process_choice"
            => /\ pc' \in {"process_choice", "process_return"}
               /\ pc' = "process_choice" => TypedBadSelection
               /\ pc' = "process_return"
                    => \/ line' = <<>> /\ message' = None /\ processed_order' = None
                       \/ TypedNumber \in 1..Len(orders) /\ processed_order'.some
               /\ (orders = <<>> /\ pc' = "process_return")
                    => line' = <<>> /\ processed_order' = None]_vars
    /\ (pc = "process_choice") ~> (pc = "process_return")

\* C16 witness: with no order pending, process_order returned (None, None).
C16_Witness ==
    /\ pc = "process_return"
    /\ orders = <<>>
    /\ hist.orders = <<>>
    /\ hist.popped = <<>>
    /\ processed_order = None
    /\ message = None

\* Upper-case form of a text, for stating what add_order stores.
UpperForm(s) == [i \in 1..Len(s) |-> IF s[i] >= 97 /\ s[i] <= 122 THEN s[i] - 32 ELSE s[i]]

\* The places of add_order and of main's handling of its message.
AddPlaces == {"add_id", "add_customer", "add_name", "add_price", "add_quantity", "add_return"}

HoldsId(collection, id) == \E i \in 1..Len(collection) : collection[i].order_id = id

\* C18: an id that a fulfilled order has and no pending order has is
\* accepted by add_order, which goes on to ask for the customer.
C18_IdReusableAfterFulfil ==
    [][(/\ pc = "add_id"
        /\ HoldsId(output_orders, UpperForm(line'))
        /\ ~HoldsId(orders, UpperForm(line')))
            => /\ pc' = "add_customer"
               /\ order_id' = UpperForm(line')
               /\ orders' = orders]_vars

\* C18 witness: the fulfilled collection holds two orders with the id A1,
\* the later one added in this run after the earlier one was fulfilled.
C18_Witness ==
    /\ hist.added > 0
    /\ \E i, j \in 1..Len(output_orders) :
        /\ i < j
        /\ output_orders[i].order_id = <<65, 49>>
        /\ output_orders[j].order_id = <<65, 49>>
        /\ output_orders[i] \in {hist.popped[k] : k \in 1..Len(hist.popped)}
        /\ output_orders[j].items[1].price = 0

\* All but the last element.
Front(s) == SubSeq(s, 1, Len(s) - 1)

\* The orders that exist in this run: those loaded and those added.
OrdersInRun == Len(hist.orders) + Len(hist.output) + hist.added

\* With a and b loaded from the pending and the fulfilled file between the
\* two saves: the pending file holds the pending collection, from which the
\* order is gone; the fulfilled file holds the fulfilled collection without
\* its last element, the order; the files hold one order less than exist.
MovedOrderInNoFile(a, b) ==
    /\ Loads(a, orders)
    /\ Loads(b, Front(output_orders))
    /\ output_orders[Len(output_orders)] = processed_order.val
    /\ Len(a.val) + Len(b.val) = OrdersInRun - 1

\* C19: after a fulfilment main saves the pending file first and the
\* fulfilled file second; between the two saves the moved order is in
\* neither file and the files hold one order less than exist; the second
\* save leaves the pending file alone and writes the fulfilled collection
\* with the order.
C19_PendingSavedFirst ==
    /\ [](pc = "save_output"
            => /\ wrote = <<INPUT_FILE>>
               /\ MovedOrderInNoFile(load_data(files, INPUT_FILE),
                                     load_data(files, OUTPUT_FILE)))
    /\ [][pc = "save_output"
            => /\ wrote' = <<OUTPUT_FILE>>
               /\ files'[INPUT_FILE] = files[INPUT_FILE]
               /\ files'[OUTPUT_FILE] = File(json_dump(output_orders))
               /\ pc' = "menu"]_vars

\* C19 witness: between the two saves of the first fulfilment of a first
\* run, the pending file holds the empty collection and there is no
\* fulfilled file: the one order of the run is in no file.
C19_Witness ==
    /\ pc = "save_output"
    /\ processed_order.some
    /\ orders = <<>>
    /\ files[INPUT_FILE] = File(<<91, 93>>)
    /\ ~files[OUTPUT_FILE].exists

\* A pending order has this id ignoring case.
HoldsIdIgnoringCase(collection, id) ==
    \E i \in 1..Len(collection) : FoldCase(collection[i].order_id) = FoldCase(id)

\* C20: main's load keeps the ids as the file has them, so that the loaded
\* collection dumps to the text of the file; and an id typed in any case
\* that equals a pending id only ignoring case, its upper-case form being
\* no pending id, is accepted by add_order.
C20_LoadedIdsVerbatim ==
    [][/\ (pc = "start" /\ files[INPUT_FILE].exists)
            => /\ pc' = "menu"
               /\ files[INPUT_FILE].text = json_dump(orders')
       /\ (/\ pc = "add_id"
           /\ HoldsIdIgnoringCase(orders, line')
           /\ ~HoldsId(orders, UpperForm(line')))
            => /\ pc' = "add_customer"
               /\ order_id' = UpperForm(line')
               /\ orders' = orders]_vars

\* C20 witness: main waits for a choice with a1, as loaded, and A1, as
\* added, both pending and saved.
C20_Witness ==
    /\ pc = "menu"
    /\ Len(orders) = 2
    /\ orders[1] = LowerOrder
    /\ orders[2].order_id = <<65, 49>>
    /\ ~PendingIdsDistinct
    /\ files[INPUT_FILE] = File(json_dump(orders))
====
